---- MODULE Spec2Model ----
(***************************************************************************)
(* Model of StringCounterApp ("Simple string counter.py", lines 283-496 of *)
(* src/GeometricObjects.py): the text area, the mode selector, the two     *)
(* result labels and the handlers update_count, revert_string and          *)
(* clean_string.                                                           *)
(*                                                                         *)
(* A text is a sequence of Unicode code points (integers), so that the     *)
(* character classes of Python's str methods and of the re module are      *)
(* modelled by what they match: '\d' and '\s' on a str pattern are the     *)
(* Unicode classes, '[a-zA-Z]' and '[.?!]' are the listed ASCII ranges.    *)
(***************************************************************************)
EXTENDS Integers, Sequences, FiniteSets

VARIABLES
    input_text,         \* contents of the ScrolledText widget (without Tk's final newline)
    count_mode,         \* StringVar bound to the radio buttons
    result_text,        \* StringVar of the primary label: f"{mode} Count: {count}"
    number_count_text,  \* StringVar of the secondary label: f"Numbers Count: {n}"
    keyDown,            \* TRUE while the key pressed last is still held down
    lastEvent,          \* history: the event handled last
    ran,                \* history: TRUE iff the last event's handler executed update_count
    revertLog           \* history: GUI snapshots taken before each of the last (at most 2)
                        \*          consecutive Revert String events

vars == <<input_text, count_mode, result_text, number_count_text, keyDown, lastEvent, ran,
          revertLog>>

----------------------------------------------------------------------------
(* Bounds of the model *)

\* longest text built by typing single characters
MaxLen == 3

\* characters the user types one at a time:
\* 'a', '1', ARABIC-INDIC DIGIT THREE, '.', '?', ' '
Alphabet == {97, 49, 1635, 46, 63, 32}

\* texts the user pastes whole
OneTwoThree == <<79, 110, 101, 46, 32, 84, 119, 111, 46, 32, 84, 104, 114, 101, 101>>       \* One. Two. Three
WaitReally == <<87, 97, 105, 116, 46, 46, 46, 32, 114, 101, 97, 108, 108, 121, 63, 33>>     \* Wait... really?!
HelloWorldDot == <<72, 101, 108, 108, 111, 32, 119, 111, 114, 108, 100, 46>>                \* Hello world.
Abc123Xyz == <<97, 98, 99, 49, 50, 51, 88, 89, 90>>                                         \* abc123XYZ
PiText == <<51, 46, 49, 52, 32, 105, 115, 32, 112, 105>>                                    \* 3.14 is pi
TwoNumbers == <<49, 50, 51, 32, 52, 53, 54>>                                                \* 123 456
SpaceAb == <<32, 97, 98>>                                                                   \* " ab"
ArabicDigitsA == <<1635, 1636, 32, 97>>                                                     \* two Arabic-Indic digits, " a"
CafeBang == <<99, 97, 102, 233, 10, 33>>                                                    \* "caf", e acute, newline, "!"
BlankText == <<10, 9, 32>>                                                                  \* newline, tab, space

Samples ==
    {OneTwoThree, WaitReally, HelloWorldDot, Abc123Xyz, PiText, TwoNumbers, SpaceAb,
     ArabicDigitsA, CafeBang, BlankText}

----------------------------------------------------------------------------
(* Character classes *)

\* str.isspace(): the characters removed by str.strip(), separating tokens in
\* str.split() and matched by '\s' in a str pattern
Whitespace_NoLineBreaks == {9, 32}

Whitespace ==
    (9..13) \cup (28..32) \cup {133, 160, 5760} \cup (8192..8202)
            \cup {8232, 8233, 8239, 8287, 12288}

\* '\d' in a str pattern (no re.ASCII flag): every character of Unicode
\* category Nd.  The ASCII, Arabic-Indic, Extended Arabic-Indic and
\* Devanagari blocks of the 66 blocks of Nd are listed.
DecimalDigits == (48..57) \cup (1632..1641) \cup (1776..1785) \cup (2406..2415)

\* the digits '0'..'9'
AsciiDigits == 48..57

\* '[a-zA-Z]'
AsciiLetters_LowerOnly == 97..122

AsciiLetters == (65..90) \cup (97..122)

\* '[.?!]'
Terminators == {46, 63, 33}

\* '.'
Dot == 46

\* the values of the three radio buttons
Modes == {"Letters", "Words", "Sentences"}

----------------------------------------------------------------------------
(* Python string and re operations used by the handlers *)

\* Text.get("1.0", tk.END): the contents followed by the widget's final newline
get(t) == t \o <<10>>

\* text[::-1]; text[::-2] takes every second character from the end and
\* text[:0:-1] stops before the first character
Reverse_step2(s) == [i \in 1..((Len(s) + 1) \div 2) |-> s[Len(s) + 2 - 2 * i]]

Reverse_stop_before_first(s) == [i \in 1..(Len(s) - 1) |-> s[Len(s) + 1 - i]]

Reverse(s) == [i \in 1..Len(s) |-> s[Len(s) + 1 - i]]

RECURSIVE lstrip(_)
lstrip(s) ==
    IF s = <<>> THEN <<>>
    ELSE IF Head(s) \in Whitespace THEN lstrip(Tail(s)) ELSE s

RECURSIVE rstrip(_)
rstrip(s) ==
    IF s = <<>> THEN <<>>
    ELSE IF s[Len(s)] \in Whitespace THEN rstrip(SubSeq(s, 1, Len(s) - 1)) ELSE s

\* str.strip()
strip(s) == rstrip(lstrip(s))

\* len(re.findall(cls, s)) for a one-character class cls
RECURSIVE findall_len(_, _)
findall_len(cls, s) ==
    IF s = <<>> THEN 0
    ELSE (IF Head(s) \in cls THEN 1 ELSE 0) + findall_len(cls, Tail(s))

\* str.split(): the maximal runs of non-whitespace characters; cur is the
\* token being scanned
RECURSIVE split_scan(_, _)
split_scan(s, cur) ==
    IF s = <<>> THEN (IF cur = <<>> THEN <<>> ELSE <<cur>>)
    ELSE IF Head(s) \in Whitespace
         THEN (IF cur = <<>> THEN <<>> ELSE <<cur>>) \o split_scan(Tail(s), <<>>)
         ELSE split_scan(Tail(s), Append(cur, Head(s)))

split(s) == split_scan(s, <<>>)

\* re.fullmatch(r'\d+', word)
fullmatch_digits(word) ==
    /\ Len(word) >= 1
    /\ \A i \in 1..Len(word) : word[i] \in DecimalDigits

\* re.sub(r'\.{2,}', '.', s): scanning left to right, a dot that starts a run
\* of two or more dots is kept and the rest of the run is dropped
RECURSIVE skip_dots(_)
skip_dots(s) ==
    IF s # <<>> /\ Head(s) = Dot THEN skip_dots(Tail(s)) ELSE s

\* re.sub(r'\.{2,}', '', s): the whole run is dropped
RECURSIVE sub_dots_by_nothing(_)
sub_dots_by_nothing(s) ==
    IF s = <<>> THEN <<>>
    ELSE IF Head(s) = Dot /\ Len(s) >= 2 /\ s[2] = Dot
         THEN sub_dots_by_nothing(skip_dots(s))
         ELSE <<Head(s)>> \o sub_dots_by_nothing(Tail(s))

RECURSIVE sub_dots(_)
sub_dots(s) ==
    IF s = <<>> THEN <<>>
    ELSE IF Head(s) = Dot /\ Len(s) >= 2 /\ s[2] = Dot
         THEN <<Dot>> \o sub_dots(skip_dots(s))
         ELSE <<Head(s)>> \o sub_dots(Tail(s))

\* re.split(r'[.?!]', s): one more segment than there are terminators, empty
\* segments included
RECURSIVE re_split_scan(_, _)
re_split_scan(s, cur) ==
    IF s = <<>> THEN <<cur>>
    ELSE IF Head(s) \in Terminators
         THEN <<cur>> \o re_split_scan(Tail(s), <<>>)
         ELSE re_split_scan(Tail(s), Append(cur, Head(s)))

re_split(s) == re_split_scan(s, <<>>)

----------------------------------------------------------------------------
(* update_count: the counting logic *)

\* number_count = len(re.findall(r'\d', text))
number_count(text) == findall_len(DecimalDigits, text)

\* the Letters branch
letters_count(text) == findall_len(AsciiLetters, text)

\* the Words branch
valid_words(text) == SelectSeq(split(text), LAMBDA word : ~fullmatch_digits(word))

words_count(text) == Len(valid_words(text))

\* the Sentences branch
text_normalized(text) == sub_dots(text)

sentences(text) == re_split(text_normalized(text))

valid_segments_unstripped(text) == SelectSeq(sentences(text), LAMBDA s : s # <<>>)

valid_segments(text) == SelectSeq(sentences(text), LAMBDA s : strip(s) # <<>>)

\* text_ends_with_terminator = bool(re.search(r'[.?!]\s*$', text)): some
\* terminator is followed by whitespace only up to the end ('$' before a
\* final newline is the same condition, a newline being whitespace)
text_ends_with_terminator_unanchored(text) ==
    \E i \in 1..Len(text) : text[i] \in Terminators

text_ends_with_terminator(text) ==
    \E i \in 1..Len(text) :
        /\ text[i] \in Terminators
        /\ \A j \in (i + 1)..Len(text) : text[j] \in Whitespace

max(a, b) == IF a >= b THEN a ELSE b

\* count after step 4, the correction for an incomplete final sentence, and
\* before the final max(0, count)
sentences_corrected_no_decrement(text) == Len(valid_segments(text))

sentences_corrected_always_decrement(text) == Len(valid_segments(text)) - 1

sentences_corrected(text) ==
    LET count == Len(valid_segments(text))
    IN  IF count > 0 /\ ~text_ends_with_terminator(text) THEN count - 1 ELSE count

sentences_count(text) == max(0, sentences_corrected(text))

\* the if / elif chain of update_count; no branch is taken for a mode that is
\* none of the three and count keeps its initial value 0
primary_count(text, mode) ==
    IF text = <<>> THEN 0
    ELSE IF mode = "Letters" THEN letters_count(text)
    ELSE IF mode = "Words" THEN words_count(text)
    ELSE IF mode = "Sentences" THEN sentences_count(text)
    ELSE 0

\* f"{mode} Count: {count}" and f"Numbers Count: {number_count}": the label
\* is kept as the pair of its two interpolated parts
Label(name, count) == [name |-> name, count |-> count]

\* the body of update_count, run on the widget contents and the mode as the
\* handler that calls it has left them
update_count ==
    LET text == strip(get(input_text'))
        mode == count_mode'
    IN  /\ number_count_text' = Label("Numbers", number_count(text))
        /\ result_text' = Label(mode, primary_count(text, mode))
        /\ ran' = TRUE

----------------------------------------------------------------------------
(* The application *)

\* snapshot of what the user sees
Snapshot == [text |-> input_text, primary |-> result_text, numbers |-> number_count_text]

Init ==
    /\ input_text = <<>>
    /\ count_mode = "Letters"
    /\ result_text = Label("Letters", 0)
    /\ number_count_text = Label("Numbers", 0)
    /\ keyDown = FALSE
    /\ lastEvent = "Init"
    /\ ran = TRUE            \* __init__ ends with self.update_count()
    /\ revertLog = <<>>

\* a key press in the text area: Tk's class binding of the widget edits the
\* contents; the handler bound to <KeyRelease> has not run yet
KeyPress ==
    /\ ~keyDown
    /\ keyDown' = TRUE
    /\ \/ \E c \in Alphabet :
            /\ Len(input_text) < MaxLen
            /\ input_text' = Append(input_text, c)
       \/ /\ input_text # <<>>
          /\ input_text' = SubSeq(input_text, 1, Len(input_text) - 1)
       \/ \E s \in Samples : input_text' = s
    /\ lastEvent' = "KeyPress"
    /\ ran' = FALSE
    /\ revertLog' = <<>>
    /\ UNCHANGED <<count_mode, result_text, number_count_text>>

\* <KeyRelease> in the text area: update_count(event)
KeyRelease ==
    /\ keyDown
    /\ keyDown' = FALSE
    /\ UNCHANGED <<input_text, count_mode>>
    /\ update_count
    /\ lastEvent' = "KeyRelease"
    /\ revertLog' = <<>>

\* a radio button is selected: the variable takes its value, then the command
\* update_count runs
SelectMode ==
    /\ \E m \in Modes : count_mode' = m
    /\ UNCHANGED <<input_text, keyDown>>
    /\ update_count
    /\ lastEvent' = "SelectMode"
    /\ revertLog' = <<>>

\* the Revert String button
revert_string ==
    LET text == strip(get(input_text))
    IN  /\ IF text # <<>>
           THEN /\ input_text' = Reverse(text)
                /\ UNCHANGED count_mode
                /\ update_count
           ELSE /\ UNCHANGED <<input_text, count_mode, result_text, number_count_text>>
                /\ ran' = FALSE
        /\ UNCHANGED keyDown
        /\ lastEvent' = "Revert"
        /\ revertLog' = IF Len(revertLog) < 2
                        THEN Append(revertLog, Snapshot)
                        ELSE <<revertLog[2], Snapshot>>

\* the Clean String button
clean_string_without_update ==
    /\ input_text' = <<>>
    /\ UNCHANGED <<count_mode, result_text, number_count_text>>
    /\ ran' = FALSE
    /\ UNCHANGED keyDown
    /\ lastEvent' = "Clean"
    /\ revertLog' = <<>>

clean_string ==
    /\ input_text' = <<>>
    /\ UNCHANGED count_mode
    /\ update_count
    /\ UNCHANGED keyDown
    /\ lastEvent' = "Clean"
    /\ revertLog' = <<>>

Next ==
    \/ KeyPress
    \/ KeyRelease
    \/ SelectMode
    \/ revert_string
    \/ clean_string

Spec == Init /\ [][Next]_vars

----------------------------------------------------------------------------
(* update_count as a function of its two inputs: one call on every text of  *)
(* the bounded set and every mode value, a value outside the three radio    *)
(* buttons included                                                         *)

CallTexts == Samples \cup UNION {[1..n -> Alphabet] : n \in 0..MaxLen}

CallModes == Modes \cup {"Paragraphs"}

CallInit ==
    /\ input_text \in CallTexts
    /\ count_mode \in CallModes
    /\ result_text = Label("Letters", 0)
    /\ number_count_text = Label("Numbers", 0)
    /\ keyDown = FALSE
    /\ lastEvent = "Init"
    /\ ran = FALSE
    /\ revertLog = <<>>

Call ==
    /\ lastEvent = "Init"
    /\ UNCHANGED <<input_text, count_mode, keyDown, revertLog>>
    /\ update_count
    /\ lastEvent' = "Call"

CallNext == Call

CallSpec == CallInit /\ [][CallNext]_vars

----------------------------------------------------------------------------
(* The stated rules, written over the text of the widget by positions       *)

\* t with every maximal run of two or more '.' replaced by one '.': the
\* positions kept are those not holding a '.' that follows a '.'
KeptPositions(t) == {i \in 1..Len(t) : ~(t[i] = Dot /\ i > 1 /\ t[i - 1] = Dot)}

Collapsed(t) ==
    LET keep == KeptPositions(t)
    IN  [k \in 1..Cardinality(keep) |->
            t[CHOOSE i \in keep : Cardinality({j \in keep : j <= i}) = k]]

\* the segments between terminators that are non-empty after trimming, each
\* named by the position of its first non-whitespace character
SegmentStarts(n) ==
    {i \in 1..Len(n) :
        /\ n[i] \notin Terminators \cup Whitespace
        /\ \A j \in 1..(i - 1) :
              n[j] \notin Terminators \cup Whitespace
                 => \E k \in (j + 1)..(i - 1) : n[k] \in Terminators}

ProvisionalCount(t) == Cardinality(SegmentStarts(Collapsed(t)))

\* t ends with a terminator optionally followed only by whitespace
EndsTerminated(t) ==
    LET nonblank == {i \in 1..Len(t) : t[i] \notin Whitespace}
    IN  /\ nonblank # {}
        /\ t[CHOOSE i \in nonblank : \A j \in nonblank : j <= i] \in Terminators

\* the maximal whitespace-delimited tokens, each named by its first position
TokenStarts(t) ==
    {i \in 1..Len(t) : t[i] \notin Whitespace /\ (i = 1 \/ t[i - 1] \in Whitespace)}

TokenPositions(t, i) ==
    {k \in i..Len(t) : \A j \in i..k : t[j] \notin Whitespace}

\* the segments of t that are non-empty after trimming and are followed by a
\* terminator in t: the terminator that ends the segment is the first one
\* after its first non-whitespace character
TerminatedSegments(t) ==
    {i \in SegmentStarts(t) : \E k \in (i + 1)..Len(t) : t[k] \in Terminators}

CountOf(cls, t) == Cardinality({i \in 1..Len(t) : t[i] \in cls})

\* the stated rules of the three modes and of the digit count, on the text
\* as it is in the widget
StatedWords(t) ==
    Cardinality({i \in TokenStarts(t) :
                    \E k \in TokenPositions(t, i) : t[k] \notin AsciiDigits})

StatedSentences(t) ==
    LET P == ProvisionalCount(t)
    IN  IF P > 0 /\ ~EndsTerminated(t) THEN P - 1 ELSE P

StatedPrimary(t, mode) ==
    IF mode = "Letters" THEN CountOf((65..90) \cup (97..122), t)
    ELSE IF mode = "Words" THEN StatedWords(t)
    ELSE StatedSentences(t)

StatedDigits(t) == CountOf(AsciiDigits, t)

----------------------------------------------------------------------------
(* Claims *)

\* C1: in Sentences mode the count shown after update_count is P, the number
\* of segments of the dot-collapsed text that are non-empty after trimming,
\* when the text ends with a terminator optionally followed by whitespace,
\* and P - 1 when it does not and P > 0; the three example texts give 2, 2, 1
C1_SentencesRule ==
    (ran /\ count_mode = "Sentences") =>
        LET P == ProvisionalCount(input_text)
        IN  /\ EndsTerminated(input_text) => result_text.count = P
            /\ (~EndsTerminated(input_text) /\ P > 0) => result_text.count = P - 1
            /\ input_text = OneTwoThree => result_text.count = 2
            /\ input_text = WaitReally => result_text.count = 2
            /\ input_text = HelloWorldDot => result_text.count = 1

C1_Witness ==
    /\ ran /\ count_mode = "Sentences"
    /\ input_text = OneTwoThree
    /\ ProvisionalCount(input_text) = 3
    /\ result_text = Label("Sentences", 2)

\* C2: in Words mode the count shown equals the number of maximal
\* whitespace-delimited tokens that do not consist entirely of ASCII digits;
\* "123 456" gives 0 and "3.14 is pi" gives 3
C2_WordsExcludeOnlyAsciiDigitTokens ==
    (ran /\ count_mode = "Words") =>
        /\ result_text.count =
              Cardinality({i \in TokenStarts(input_text) :
                              \E k \in TokenPositions(input_text, i) :
                                  input_text[k] \notin AsciiDigits})
        /\ input_text = TwoNumbers => result_text.count = 0
        /\ input_text = PiText => result_text.count = 3

\* C3: the digit count shown equals the number of characters of the text
\* that are ASCII digits '0'..'9', whichever mode is selected
C3_DigitCountIsAsciiDigits ==
    ran => number_count_text.count = CountOf(AsciiDigits, input_text)

\* C4: in Letters mode the count shown equals the number of characters of the
\* text in 'a'..'z' or 'A'..'Z'; "abc123XYZ" gives 6
C4_LettersRule ==
    (ran /\ count_mode = "Letters") =>
        /\ result_text.count = CountOf((65..90) \cup (97..122), input_text)
        /\ input_text = Abc123Xyz => result_text.count = 6

C4_Witness ==
    /\ ran /\ count_mode = "Letters"
    /\ input_text = Abc123Xyz
    /\ result_text = Label("Letters", 6)

\* C5: a call with a mode that is none of Letters, Words, Sentences reports
\* no count under that mode
C5_InvalidModeReportsNoCount ==
    (lastEvent = "Call" /\ count_mode \notin Modes) => result_text.name # count_mode

\* C6: after a key release, a mode selection, Revert String or Clean String
\* the two labels show the counts of the current text in the current mode and
\* the primary label carries the current mode's name
C6_DisplayMatchesTextAndMode ==
    lastEvent \in {"Init", "KeyRelease", "SelectMode", "Revert", "Clean"} =>
        /\ result_text =
              Label(count_mode, primary_count(strip(get(input_text)), count_mode))
        /\ number_count_text = Label("Numbers", number_count(strip(get(input_text))))

\* C7: two Revert String actions in a row leave the text equal to the text
\* before the first of them
C7_RevertTwiceRestoresText ==
    (lastEvent = "Revert" /\ Len(revertLog) = 2) => input_text = revertLog[1].text

\* the run that refutes it starts from the pasted text " ab"
C7_LeadingBlankReverted ==
    /\ lastEvent = "Revert" /\ Len(revertLog) = 2
    /\ revertLog[1].text = SpaceAb
    /\ input_text = <<97, 98>>

\* C8: every Revert String and every Clean String action runs update_count
C8_RevertAndCleanRunUpdate ==
    lastEvent \in {"Revert", "Clean"} => ran

\* C9: a Clean String action leaves the text empty, both counts shown 0 and
\* the selected mode unchanged
C9_CleanYieldsZero ==
    [][lastEvent' = "Clean" =>
          /\ input_text' = <<>>
          /\ result_text' = Label(count_mode, 0)
          /\ number_count_text' = Label("Numbers", 0)
          /\ count_mode' = count_mode]_vars

C9_Witness ==
    /\ lastEvent = "Clean"
    /\ count_mode = "Sentences"
    /\ input_text = <<>>
    /\ result_text = Label("Sentences", 0)
    /\ number_count_text = Label("Numbers", 0)

\* C10: for the empty text and for a text of whitespace only, the primary
\* count is 0 in each of the three modes and the digit count is 0
C10_BlankTextCountsZero ==
    (ran /\ \A i \in 1..Len(input_text) : input_text[i] \in Whitespace) =>
        /\ result_text = Label(count_mode, 0)
        /\ number_count_text = Label("Numbers", 0)

C10_Witness ==
    /\ ran
    /\ input_text = BlankText
    /\ count_mode = "Words"
    /\ result_text = Label("Words", 0)

\* C11: in Sentences mode a text holding none of '.', '?', '!' gives the
\* count 0; "Hello world" gives 0
C11_NoTerminatorGivesZero ==
    (/\ ran /\ count_mode = "Sentences"
     /\ \A i \in 1..Len(input_text) : input_text[i] \notin Terminators) =>
        result_text = Label("Sentences", 0)

C11_Witness ==
    /\ ran /\ count_mode = "Sentences"
    /\ input_text = SubSeq(HelloWorldDot, 1, 11)
    /\ Len(valid_segments(strip(get(input_text)))) = 1
    /\ result_text = Label("Sentences", 0)

\* C12: both counts shown are >= 0 for every text and mode, and in Sentences
\* mode the count after the trailing-segment decrement is already >= 0 and is
\* the count shown, the final max(0, count) changing nothing
C12_CountsNonNegative ==
    ran =>
        /\ result_text.count >= 0
        /\ number_count_text.count >= 0
        /\ (count_mode = "Sentences" /\ strip(get(input_text)) # <<>>) =>
              /\ sentences_corrected(strip(get(input_text))) >= 0
              /\ sentences_corrected(strip(get(input_text))) = result_text.count

C12_Witness ==
    /\ ran /\ count_mode = "Sentences"
    /\ input_text = <<97>>
    /\ Len(valid_segments(strip(get(input_text)))) = 1
    /\ sentences_corrected(strip(get(input_text))) = 0
    /\ result_text = Label("Sentences", 0)

\* C13: in Sentences mode the count shown equals the number of segments of
\* the text that are non-empty after trimming and are immediately followed by
\* a terminator; only the final, unterminated fragment is subtracted
C13_CountsTerminatedSegments ==
    (ran /\ count_mode = "Sentences") =>
        /\ result_text.count = Cardinality(TerminatedSegments(input_text))
        /\ Cardinality(SegmentStarts(input_text)) - result_text.count \in {0, 1}
        /\ input_text = OneTwoThree => result_text.count = 2

C13_Witness ==
    /\ ran /\ count_mode = "Sentences"
    /\ input_text = OneTwoThree
    /\ Cardinality(SegmentStarts(input_text)) = 3
    /\ Cardinality(TerminatedSegments(input_text)) = 2
    /\ result_text = Label("Sentences", 2)

\* C14: the Sentences count of a text equals the Sentences count of the text
\* with every maximal run of two or more '.' replaced by one '.', and a text
\* made of dots only counts 0
C14_DotRunsCountAsOneDot ==
    (ran /\ count_mode = "Sentences") =>
        /\ result_text.count =
              primary_count(strip(get(Collapsed(input_text))), "Sentences")
        /\ (\A i \in 1..Len(input_text) : input_text[i] = Dot) => result_text.count = 0

C14_Witness ==
    /\ ran /\ count_mode = "Sentences"
    /\ input_text = WaitReally
    /\ Len(Collapsed(input_text)) = Len(input_text) - 2
    /\ result_text = Label("Sentences", 2)

\* C15: the counts the code computes on the stripped text equal the counts
\* of the stated rules on the unstripped text, for every text and mode
C15_StrippedCountsEqualStatedCounts ==
    ran =>
        /\ result_text.count = StatedPrimary(input_text, count_mode)
        /\ number_count_text.count = StatedDigits(input_text)

\* what does hold: the code's own rules give the same counts on the text
\* with and without the strip()
C15_StripAloneIsInvisible ==
    ran =>
        /\ result_text.count = primary_count(input_text, count_mode)
        /\ number_count_text.count = number_count(input_text)

\* C16: one Revert String action leaves the digit count, the Letters count
\* and the Words count of the text unchanged
C16_RevertPreservesCounts ==
    (lastEvent = "Revert" /\ revertLog # <<>>) =>
        LET before == strip(get(revertLog[Len(revertLog)].text))
            after == strip(get(input_text))
        IN  /\ number_count(after) = number_count(before)
            /\ primary_count(after, "Letters") = primary_count(before, "Letters")
            /\ primary_count(after, "Words") = primary_count(before, "Words")

C16_Witness ==
    /\ lastEvent = "Revert" /\ Len(revertLog) = 1
    /\ revertLog[1].text = PiText
    /\ input_text = Reverse(PiText)
    /\ count_mode = "Words"
    /\ revertLog[1].primary = Label("Words", 3)
    /\ result_text = Label("Words", 3)

\* C17 as stated: after two Revert String actions in a row the two labels
\* show the values they showed before the first of them
C17_RevertTwiceRestoresLabels ==
    (lastEvent = "Revert" /\ Len(revertLog) = 2) =>
        /\ result_text = revertLog[1].primary
        /\ number_count_text = revertLog[1].numbers

\* the labels showed the counts of the text that was in the widget
LabelsWereCurrent(snap) ==
    /\ snap.primary = Label(count_mode, primary_count(strip(get(snap.text)), count_mode))
    /\ snap.numbers = Label("Numbers", number_count(strip(get(snap.text))))

\* C17 as amended: after two Revert String actions in a row the two labels
\* show the values they showed before the first of them, when those values
\* were the counts of the text at that moment
C17_RevertTwiceRestoresCurrentLabels ==
    (lastEvent = "Revert" /\ Len(revertLog) = 2 /\ LabelsWereCurrent(revertLog[1])) =>
        /\ result_text = revertLog[1].primary
        /\ number_count_text = revertLog[1].numbers

C17_Witness ==
    /\ lastEvent = "Revert" /\ Len(revertLog) = 2
    /\ count_mode = "Sentences"
    /\ revertLog[1].text = HelloWorldDot
    /\ LabelsWereCurrent(revertLog[1])
    /\ revertLog[1].primary = Label("Sentences", 1)
    /\ revertLog[2].primary = Label("Sentences", 0)
    /\ result_text = Label("Sentences", 1)

====
